---- MODULE Spec2Model ----
(***************************************************************************)
(* term-draw (src/src/main.rs): the diagram editing engine.                *)
(*                                                                         *)
(* GlobalState is modelled field by field; one loop iteration of run()     *)
(* (assign window_size, draw, process_input, test should_quit) is one      *)
(* step, and there is one action per input event process_input can read.   *)
(* Coordinates are pairs <<x, y>>: pos[1] is Rust's pos.0 (the column),    *)
(* pos[2] is pos.1 (the row).  A HashMap<(u16,u16),char> is a function     *)
(* whose DOMAIN is the set of occupied coordinates.                        *)
(*                                                                         *)
(* Glyphs are named by ASCII strings (the module text is ASCII only):      *)
(*   "hline" U+2500   "vline" U+2502                                       *)
(*   "tl" U+256D  "tr" U+256E  "bl" U+2570  "br" U+256F  (round corners)   *)
(*   "right" U+25B6  "left" U+25C0  "down" U+25BC  "up" U+25B2  (heads)    *)
(*   "diamond" U+25C6   "plus" '+'   "x" a typed character   " " a blank   *)
(*   "nl" the line break '\n'                                              *)
(***************************************************************************)
EXTENDS Integers, Sequences, FiniteSets, TLC

VARIABLES
    should_quit,      \* GlobalState.should_quit
    start_pos,        \* GlobalState.start_pos   (Anchor)
    prev_pos,         \* GlobalState.prev_pos    (PreviousCursor)
    current_pos,      \* GlobalState.current_pos (Cursor)
    diagram,          \* GlobalState.diagram
    preview,          \* GlobalState.preview
    window_size,      \* GlobalState.window_size
    input_state,      \* GlobalState.input_state (Mode)
    status,           \* where main() is: "running", "quit", "error", "panic"
    overflow_checks,  \* the build: TRUE when u16 arithmetic is overflow-checked
    last,             \* the key event processed last: key, mode it met, save I/O outcome
    nevents           \* number of key events processed so far

vars == <<should_quit, start_pos, prev_pos, current_pos, diagram, preview,
          window_size, input_state, status, overflow_checks, last, nevents>>

----------------------------------------------------------------------------
(* Bounds of the model *)

TermWidth == 5
TermHeight == 2
MaxEvents == 6

(* Program constants *)

U16 == 65536

----------------------------------------------------------------------------
(* Glyphs *)

HLINE == "hline"
VLINE == "vline"
TOPLEFT == "tl"
TOPRIGHT == "tr"
BOTTOMLEFT == "bl"
BOTTOMRIGHT == "br"
HEAD_RIGHT == "right"
HEAD_LEFT == "left"
HEAD_DOWN == "down"
HEAD_UP == "up"
DIAMOND == "diamond"
PLUS == "plus"
BLANK == " "
NEWLINE == "nl"

Heads == {HEAD_RIGHT, HEAD_LEFT, HEAD_DOWN, HEAD_UP}

(* The characters a Char key event can carry *)
TypedChars == {"x"}

----------------------------------------------------------------------------
(* HashMap<(u16,u16), char> *)

EmptyMap == [p \in {} |-> BLANK]

MapInsert(m, k, v) == [p \in (DOMAIN m) \cup {k} |-> IF p = k THEN v ELSE m[p]]

MapRemove(m, k) == [p \in (DOMAIN m) \ {k} |-> m[p]]

(* MapMerge with the plausible slip of keeping an entry dst already has *)
MapMergeKeepsOld(dst, src) ==
    [p \in (DOMAIN dst) \cup (DOMAIN src) |-> IF p \in DOMAIN dst THEN dst[p] ELSE src[p]]

(* the commit loop: every entry of src is inserted into dst *)
MapMerge(dst, src) ==
    [p \in (DOMAIN dst) \cup (DOMAIN src) |-> IF p \in DOMAIN src THEN src[p] ELSE dst[p]]

(* a sequence of insert(k, v) calls applied in order; writes[i] = <<k, v>> *)
RECURSIVE InsertAll(_, _)
InsertAll(m, writes) ==
    IF writes = <<>> THEN m
    ELSE InsertAll(MapInsert(m, Head(writes)[1], Head(writes)[2]), Tail(writes))

Min(a, b) == IF a < b THEN a ELSE b
Max(a, b) == IF a > b THEN a ELSE b

----------------------------------------------------------------------------
(* GlobalState *)

InputStates == {"INSERT", "BOX", "ARROW"}

GS == [should_quit |-> should_quit, start_pos |-> start_pos, prev_pos |-> prev_pos,
       current_pos |-> current_pos, diagram |-> diagram, preview |-> preview,
       window_size |-> window_size, input_state |-> input_state]

DefaultState ==
    [should_quit |-> FALSE, start_pos |-> <<0, 0>>, prev_pos |-> <<0, 0>>,
     current_pos |-> <<0, 0>>, diagram |-> EmptyMap, preview |-> EmptyMap,
     window_size |-> <<0, 0>>, input_state |-> "INSERT"]

----------------------------------------------------------------------------
(* process_input: the match on the key (lines 128-219) *)

(* Ctrl-b *)
Key_CtrlB(gs) ==
    IF gs.input_state # "BOX"
    THEN [gs EXCEPT !.input_state = "BOX", !.start_pos = gs.current_pos]
    ELSE gs

(* Ctrl-a *)
Key_CtrlA(gs) ==
    IF gs.input_state # "ARROW"
    THEN [gs EXCEPT !.input_state = "ARROW", !.start_pos = gs.current_pos]
    ELSE gs

(* Key_Esc with the plausible slip of an INSERT guard like the one of Char *)
Key_EscInsertOnly(gs) ==
    IF gs.input_state = "INSERT" THEN [gs EXCEPT !.should_quit = TRUE] ELSE gs

(* Esc *)
Key_Esc(gs) == [gs EXCEPT !.should_quit = TRUE]

(* Key_Char with the plausible slip of leaving out the INSERT guard *)
Key_CharAnyMode(gs, ch) ==
    [gs EXCEPT !.diagram = MapInsert(gs.diagram, gs.current_pos, ch),
               !.current_pos = IF gs.current_pos[1] < gs.window_size[1]
                               THEN <<(gs.current_pos[1] + 1) % U16, gs.current_pos[2]>>
                               ELSE gs.current_pos]

(* Char(ch): the arm is guarded by input_state == INSERT, otherwise the key
   falls through to the catch-all arm *)
Key_Char(gs, ch) ==
    IF gs.input_state = "INSERT"
    THEN [gs EXCEPT !.diagram = MapInsert(gs.diagram, gs.current_pos, ch),
                    !.current_pos = IF gs.current_pos[1] < gs.window_size[1]
                                    THEN <<(gs.current_pos[1] + 1) % U16, gs.current_pos[2]>>
                                    ELSE gs.current_pos]
    ELSE gs

(* Key_Backspace with the plausible slip of removing before decrementing *)
Key_BackspaceRemovesFirst(gs) ==
    IF gs.input_state = "INSERT" /\ gs.current_pos[1] > 0
    THEN [gs EXCEPT !.current_pos = <<gs.current_pos[1] - 1, gs.current_pos[2]>>,
                    !.diagram = MapRemove(gs.diagram, gs.current_pos)]
    ELSE gs

(* Backspace: guarded by input_state == INSERT *)
Key_Backspace(gs) ==
    IF gs.input_state = "INSERT" /\ gs.current_pos[1] > 0
    THEN LET pos == <<gs.current_pos[1] - 1, gs.current_pos[2]>>
         IN [gs EXCEPT !.current_pos = pos, !.diagram = MapRemove(gs.diagram, pos)]
    ELSE gs

(* Key_Left with the plausible slip of not recording prev_pos *)
Key_LeftNoPrev(gs) ==
    IF gs.current_pos[1] > 0
    THEN [gs EXCEPT !.current_pos = <<gs.current_pos[1] - 1, gs.current_pos[2]>>]
    ELSE gs

Key_Left(gs) ==
    IF gs.current_pos[1] > 0
    THEN [gs EXCEPT !.prev_pos = gs.current_pos,
                    !.current_pos = <<gs.current_pos[1] - 1, gs.current_pos[2]>>]
    ELSE gs

Key_Right(gs) ==
    IF gs.current_pos[1] < gs.window_size[1]
    THEN [gs EXCEPT !.prev_pos = gs.current_pos,
                    !.current_pos = <<(gs.current_pos[1] + 1) % U16, gs.current_pos[2]>>]
    ELSE gs

(* Key_Up with the plausible slip of recording prev_pos outside the guard *)
Key_UpAlwaysPrev(gs) ==
    IF gs.current_pos[2] > 0
    THEN [gs EXCEPT !.prev_pos = gs.current_pos,
                    !.current_pos = <<gs.current_pos[1], gs.current_pos[2] - 1>>]
    ELSE [gs EXCEPT !.prev_pos = gs.current_pos]

Key_Up(gs) ==
    IF gs.current_pos[2] > 0
    THEN [gs EXCEPT !.prev_pos = gs.current_pos,
                    !.current_pos = <<gs.current_pos[1], gs.current_pos[2] - 1>>]
    ELSE gs

Key_Down(gs) ==
    IF gs.current_pos[2] < gs.window_size[2]
    THEN [gs EXCEPT !.prev_pos = gs.current_pos,
                    !.current_pos = <<gs.current_pos[1], (gs.current_pos[2] + 1) % U16>>]
    ELSE gs

(* Enter: confirm box / new line / confirm arrow *)
Key_Enter(gs) ==
    IF gs.input_state \in {"BOX", "ARROW"}
    THEN [gs EXCEPT !.diagram = MapMerge(gs.diagram, gs.preview),
                    !.preview = EmptyMap,
                    !.input_state = "INSERT"]
    ELSE [gs EXCEPT !.current_pos =
              <<0, IF gs.current_pos[2] < gs.window_size[2]
                   THEN (gs.current_pos[2] + 1) % U16
                   ELSE gs.current_pos[2]>>]

(* The key events process_input can read.  "Other" is any key that reaches a
   catch-all arm: an unbound key, or any key with a modifier other than
   CONTROL or NONE. *)
Keys == {"Ctrl-b", "Ctrl-a", "Ctrl-s", "Esc", "Char", "Backspace",
         "Left", "Right", "Up", "Down", "Enter", "Other"}

MoveKeys == {"Left", "Right", "Up", "Down"}

Dispatch(gs, key, ch) ==
    CASE key = "Ctrl-b" -> Key_CtrlB(gs)
      [] key = "Ctrl-a" -> Key_CtrlA(gs)
      [] key = "Esc" -> Key_Esc(gs)
      [] key = "Char" -> Key_Char(gs, ch)
      [] key = "Backspace" -> Key_Backspace(gs)
      [] key = "Left" -> Key_Left(gs)
      [] key = "Right" -> Key_Right(gs)
      [] key = "Up" -> Key_Up(gs)
      [] key = "Down" -> Key_Down(gs)
      [] key = "Enter" -> Key_Enter(gs)
      [] OTHER -> gs

----------------------------------------------------------------------------
(* process_input: the shape generators run after the match (lines 222-313) *)

(* BoxWrites with the plausible slip of writing the corners in reverse order *)
BoxWritesCornersReversed(left, right, top, bottom) ==
    [i \in 1..(2 * (right - left)) |->
        <<<<left + ((i - 1) \div 2), IF i % 2 = 1 THEN top ELSE bottom>>, HLINE>>]
    \o [i \in 1..(2 * (bottom - top)) |->
        <<<<IF i % 2 = 1 THEN left ELSE right, top + ((i - 1) \div 2)>>, VLINE>>]
    \o << <<<<right, bottom>>, BOTTOMRIGHT>>, <<<<left, bottom>>, BOTTOMLEFT>>,
          <<<<right, top>>, TOPRIGHT>>, <<<<left, top>>, TOPLEFT>> >>

(* the insert calls of the box generator, in program order *)
BoxWrites(left, right, top, bottom) ==
    [i \in 1..(2 * (right - left)) |->
        <<<<left + ((i - 1) \div 2), IF i % 2 = 1 THEN top ELSE bottom>>, HLINE>>]
    \o [i \in 1..(2 * (bottom - top)) |->
        <<<<IF i % 2 = 1 THEN left ELSE right, top + ((i - 1) \div 2)>>, VLINE>>]
    \o << <<<<left, top>>, TOPLEFT>>, <<<<right, top>>, TOPRIGHT>>,
          <<<<left, bottom>>, BOTTOMLEFT>>, <<<<right, bottom>>, BOTTOMRIGHT>> >>

(* BoxGenerator with the plausible slip of leaving out the min/max
   normalisation: Anchor is taken as the top-left point, Cursor as the
   bottom-right one *)
BoxGeneratorNoNormalize(gs) ==
    [gs EXCEPT !.preview = InsertAll(EmptyMap, BoxWrites(gs.start_pos[1], gs.current_pos[1],
                                                        gs.start_pos[2], gs.current_pos[2]))]

(* BoxGenerator with the plausible slip of leaving out preview.clear() *)
BoxGeneratorNoClear(gs) ==
    LET lefty == Min(gs.current_pos[1], gs.start_pos[1])
        righty == Max(gs.current_pos[1], gs.start_pos[1])
        topx == Min(gs.current_pos[2], gs.start_pos[2])
        bottomx == Max(gs.current_pos[2], gs.start_pos[2])
    IN [gs EXCEPT !.preview = InsertAll(gs.preview, BoxWrites(lefty, righty, topx, bottomx))]

BoxGenerator(gs) ==
    LET lefty == Min(gs.current_pos[1], gs.start_pos[1])
        righty == Max(gs.current_pos[1], gs.start_pos[1])
        topx == Min(gs.current_pos[2], gs.start_pos[2])
        bottomx == Max(gs.current_pos[2], gs.start_pos[2])
    IN [gs EXCEPT !.preview = InsertAll(EmptyMap, BoxWrites(lefty, righty, topx, bottomx))]

(* Direction with the plausible slip of a missing Up test *)
DirectionNoUp(prev, cur, checks) ==
    IF checks /\ prev[1] = U16 - 1 THEN "Panic"
    ELSE IF (prev[1] + 1) % U16 = cur[1] THEN "Right"
    ELSE IF checks /\ prev[1] = 0 THEN "Panic"
    ELSE IF (prev[1] + U16 - 1) % U16 = cur[1] THEN "Left"
    ELSE IF checks /\ prev[2] = U16 - 1 THEN "Panic"
    ELSE IF (prev[2] + 1) % U16 = cur[2] THEN "Down"
    ELSE "Indeterminate"

(* The if-chain on prev_pos and current_pos (lines 243-253, repeated in every
   arm of the match at 254-309).  The u16 additions and subtractions wrap in
   a build without overflow checks and panic in a build with them; the chain
   stops at the first test that holds. *)
Direction(prev, cur, checks) ==
    IF checks /\ prev[1] = U16 - 1 THEN "Panic"
    ELSE IF (prev[1] + 1) % U16 = cur[1] THEN "Right"
    ELSE IF checks /\ prev[1] = 0 THEN "Panic"
    ELSE IF (prev[1] + U16 - 1) % U16 = cur[1] THEN "Left"
    ELSE IF checks /\ prev[2] = U16 - 1 THEN "Panic"
    ELSE IF (prev[2] + 1) % U16 = cur[2] THEN "Down"
    ELSE IF checks /\ prev[2] = 0 THEN "Panic"
    ELSE IF (prev[2] + U16 - 1) % U16 = cur[2] THEN "Up"
    ELSE "Indeterminate"

(* lines 245 and 249: the if-chain evaluates prev_pos.0 - 1 with prev_pos.0
   = 0 (it got past the first test), or prev_pos.1 - 1 with prev_pos.1 = 0
   (it got past the first three) *)
Underflows(prev, cur) ==
    \/ /\ (prev[1] + 1) % U16 # cur[1]
       /\ prev[1] = 0
    \/ /\ (prev[1] + 1) % U16 # cur[1]
       /\ (prev[1] + U16 - 1) % U16 # cur[1]
       /\ (prev[2] + 1) % U16 # cur[2]
       /\ prev[2] = 0

(* lines 243-253: the glyph written at current_pos *)
HeadGlyph(dir) ==
    CASE dir = "Right" -> HEAD_RIGHT
      [] dir = "Left" -> HEAD_LEFT
      [] dir = "Down" -> HEAD_DOWN
      [] dir = "Up" -> HEAD_UP
      [] OTHER -> DIAMOND

(* lines 254-306: the glyph that replaces a head found at prev_pos *)
Replacement(head, dir) ==
    CASE head = HEAD_RIGHT ->
            (CASE dir \in {"Right", "Left"} -> HLINE
               [] dir = "Down" -> TOPRIGHT
               [] dir = "Up" -> BOTTOMRIGHT
               [] OTHER -> PLUS)
      [] head = HEAD_LEFT ->
            (CASE dir \in {"Right", "Left"} -> HLINE
               [] dir = "Down" -> TOPLEFT
               [] dir = "Up" -> BOTTOMLEFT
               [] OTHER -> PLUS)
      [] head = HEAD_DOWN ->
            (CASE dir = "Right" -> BOTTOMLEFT
               [] dir = "Left" -> BOTTOMRIGHT
               [] dir \in {"Down", "Up"} -> VLINE
               [] OTHER -> PLUS)
      [] head = HEAD_UP ->
            (CASE dir = "Right" -> TOPLEFT
               [] dir = "Left" -> TOPRIGHT
               [] dir \in {"Down", "Up"} -> VLINE
               [] OTHER -> PLUS)

(* ArrowGenerator with the plausible slip of never rewriting prev_pos *)
ArrowGeneratorNoRewrite(gs, checks) ==
    LET dir == Direction(gs.prev_pos, gs.current_pos, checks)
    IN IF dir = "Panic" THEN [gs |-> gs, result |-> "Panic"]
       ELSE [gs |-> [gs EXCEPT !.preview =
                        MapInsert(gs.preview, gs.current_pos, HeadGlyph(dir))],
             result |-> "Ok"]

(* The arrow generator.  A panic can only come from the first if-chain, which
   runs before any write to preview. *)
ArrowGenerator(gs, checks) ==
    LET dir == Direction(gs.prev_pos, gs.current_pos, checks)
        withHead == MapInsert(gs.preview, gs.current_pos, HeadGlyph(dir))
        atPrev == IF gs.prev_pos \in DOMAIN withHead THEN withHead[gs.prev_pos] ELSE "None"
    IN IF dir = "Panic" THEN [gs |-> gs, result |-> "Panic"]
       ELSE [gs |-> [gs EXCEPT !.preview =
                        IF atPrev \in Heads
                        THEN MapInsert(withHead, gs.prev_pos, Replacement(atPrev, dir))
                        ELSE withHead],
             result |-> "Ok"]

(* Regenerate with the plausible slip of a plain else in place of the
   else-if of line 242: the arrow generator also runs in INSERT *)
RegenerateArrowElse(gs, checks) ==
    IF gs.input_state = "BOX" THEN [gs |-> BoxGenerator(gs), result |-> "Ok"]
    ELSE ArrowGenerator(gs, checks)

(* lines 222-313 *)
Regenerate(gs, checks) ==
    IF gs.input_state = "BOX" THEN [gs |-> BoxGenerator(gs), result |-> "Ok"]
    ELSE IF gs.input_state = "ARROW" THEN ArrowGenerator(gs, checks)
    ELSE [gs |-> [gs EXCEPT !.preview = EmptyMap], result |-> "Ok"]

----------------------------------------------------------------------------
(* generate_output (lines 72-89): the composed frame, one glyph per cell and
   a line break after every row *)

(* OutputCols with the plausible slip of looking in diagram first *)
RECURSIVE OutputColsDiagramFirst(_, _, _, _)
OutputColsDiagramFirst(gs, chars, i, j) ==
    IF j >= gs.window_size[1] THEN chars
    ELSE OutputColsDiagramFirst(gs,
                    Append(chars,
                           IF <<j, i>> \in DOMAIN gs.diagram THEN gs.diagram[<<j, i>>]
                           ELSE IF <<j, i>> \in DOMAIN gs.preview THEN gs.preview[<<j, i>>]
                           ELSE BLANK),
                    i, j + 1)

RECURSIVE OutputCols(_, _, _, _)
OutputCols(gs, chars, i, j) ==
    IF j >= gs.window_size[1] THEN chars
    ELSE OutputCols(gs,
                    Append(chars,
                           IF <<j, i>> \in DOMAIN gs.preview THEN gs.preview[<<j, i>>]
                           ELSE IF <<j, i>> \in DOMAIN gs.diagram THEN gs.diagram[<<j, i>>]
                           ELSE BLANK),
                    i, j + 1)

(* OutputRows with the plausible slip of an inclusive row range *)
RECURSIVE OutputRowsInclusive(_, _, _)
OutputRowsInclusive(gs, chars, i) ==
    IF i > gs.window_size[2] THEN chars
    ELSE OutputRowsInclusive(gs, Append(OutputCols(gs, chars, i, 0), NEWLINE), i + 1)

RECURSIVE OutputRows(_, _, _)
OutputRows(gs, chars, i) ==
    IF i >= gs.window_size[2] THEN chars
    ELSE OutputRows(gs, Append(OutputCols(gs, chars, i, 0), NEWLINE), i + 1)

generate_output(gs) == OutputRows(gs, <<>>, 0)

----------------------------------------------------------------------------
(* process_input (lines 125-318) *)

(* What the save I/O of Ctrl-s can do: File::create fails ("create_err", the
   ? operator returns the error), write fails with its Result dropped and the
   flush of the then empty buffer succeeds ("write_err"), flush fails
   ("flush_err", unwrap panics), or all succeed ("ok"). *)
SaveOutcomes == {"ok", "create_err", "write_err", "flush_err"}

(* ev.key is a key of Keys, or "None" when the poll times out or the event
   read is not a key event (line 317). *)
process_input(gs, ev, checks) ==
    IF ev.key = "None" THEN [gs |-> gs, result |-> "Ok"]
    ELSE IF ev.key = "Ctrl-s" /\ ev.io = "create_err" THEN [gs |-> gs, result |-> "Err"]
    ELSE IF ev.key = "Ctrl-s" /\ ev.io = "flush_err" THEN [gs |-> gs, result |-> "Panic"]
    ELSE Regenerate(Dispatch(gs, ev.key, ev.ch), checks)

----------------------------------------------------------------------------
(* run (lines 91-123) and main (lines 50-56): one loop iteration per step *)

TerminalSize == <<TermWidth, TermHeight>>

(* lines 100-108: the frame drawn at the start of an iteration *)
draw == generate_output([GS EXCEPT !.window_size = TerminalSize])

Event(key, ch, io) == [key |-> key, ch |-> ch, io |-> io]

Iteration(ev) ==
    /\ status = "running"
    /\ \E r \in {process_input([GS EXCEPT !.window_size = TerminalSize], ev, overflow_checks)} :
          /\ should_quit' = r.gs.should_quit
          /\ start_pos' = r.gs.start_pos
          /\ prev_pos' = r.gs.prev_pos
          /\ current_pos' = r.gs.current_pos
          /\ diagram' = r.gs.diagram
          /\ preview' = r.gs.preview
          /\ window_size' = r.gs.window_size
          /\ input_state' = r.gs.input_state
          /\ status' = CASE r.result = "Err" -> "error"
                         [] r.result = "Panic" -> "panic"
                         [] r.gs.should_quit -> "quit"
                         [] OTHER -> "running"
    /\ UNCHANGED overflow_checks

(* a key event: the bookkeeping of the model around the iteration *)
Press(key, ch, io) ==
    /\ Iteration(Event(key, ch, io))
    /\ last' = [key |-> key, mode |-> input_state, io |-> io]
    /\ nevents' = nevents + 1

NoKeyEvent ==
    /\ Iteration(Event("None", "x", "none"))
    /\ UNCHANGED <<last, nevents>>

StartBox ==
    /\ nevents < MaxEvents
    /\ Press("Ctrl-b", "x", "none")

StartArrow ==
    /\ nevents < MaxEvents
    /\ Press("Ctrl-a", "x", "none")

Save ==
    /\ nevents < MaxEvents
    /\ \E io \in SaveOutcomes : Press("Ctrl-s", "x", io)

Quit ==
    /\ nevents < MaxEvents
    /\ Press("Esc", "x", "none")

InsertChar ==
    /\ nevents < MaxEvents
    /\ \E ch \in TypedChars : Press("Char", ch, "none")

Backspace ==
    /\ nevents < MaxEvents
    /\ Press("Backspace", "x", "none")

MoveLeft ==
    /\ nevents < MaxEvents
    /\ Press("Left", "x", "none")

MoveRight ==
    /\ nevents < MaxEvents
    /\ Press("Right", "x", "none")

MoveUp ==
    /\ nevents < MaxEvents
    /\ Press("Up", "x", "none")

MoveDown ==
    /\ nevents < MaxEvents
    /\ Press("Down", "x", "none")

Confirm ==
    /\ nevents < MaxEvents
    /\ Press("Enter", "x", "none")

OtherKey ==
    /\ nevents < MaxEvents
    /\ Press("Other", "x", "none")

Init ==
    /\ should_quit = DefaultState.should_quit
    /\ start_pos = DefaultState.start_pos
    /\ prev_pos = DefaultState.prev_pos
    /\ current_pos = DefaultState.current_pos
    /\ diagram = DefaultState.diagram
    /\ preview = DefaultState.preview
    /\ window_size = DefaultState.window_size
    /\ input_state = DefaultState.input_state
    /\ status = "running"
    /\ overflow_checks \in BOOLEAN
    /\ last = [key |-> "None", mode |-> "INSERT", io |-> "none"]
    /\ nevents = 0

Next ==
    \/ NoKeyEvent
    \/ StartBox
    \/ StartArrow
    \/ Save
    \/ Quit
    \/ InsertChar
    \/ Backspace
    \/ MoveLeft
    \/ MoveRight
    \/ MoveUp
    \/ MoveDown
    \/ Confirm
    \/ OtherKey

Spec == Init /\ [][Next]_vars

----------------------------------------------------------------------------
(* Properties *)

Running == status = "running"

(* the step just taken processed key event k *)
Pressed(k) == nevents' = nevents + 1 /\ last'.key = k

(* C1: in every reachable state, whenever Mode is Insert the Preview layer
   is empty. *)
C1_InsertPreviewEmpty == input_state = "INSERT" => DOMAIN preview = {}

(* C1 witness: Insert mode was reached by confirming a shape, whose preview
   went into the diagram *)
C1_Witness ==
    /\ last.key = "Enter" /\ last.mode \in {"BOX", "ARROW"}
    /\ input_state = "INSERT"
    /\ DOMAIN diagram # {}
    /\ DOMAIN preview = {}

(* C2 (as claimed): in every reachable state, once the viewport size is
   known, the Cursor lies inside the viewport: cursor.x < width and
   cursor.y < height. *)
C2_CursorInViewport ==
    window_size = TerminalSize =>
        /\ 0 <= current_pos[1] /\ current_pos[1] < window_size[1]
        /\ 0 <= current_pos[2] /\ current_pos[2] < window_size[2]

(* C3 (as claimed): immediately after a switch from Box to Arrow, or from
   Arrow to Box, Preview holds no entry produced by the previous mode's
   generator: after Box -> Arrow nothing but the arrow's first glyph at the
   Cursor, after Arrow -> Box no head and no diamond. *)
C3_SwitchClearsPreview ==
    Running =>
        /\ (last.key = "Ctrl-a" /\ last.mode = "BOX") => DOMAIN preview \subseteq {current_pos}
        /\ (last.key = "Ctrl-b" /\ last.mode = "ARROW") =>
               \A p \in DOMAIN preview : preview[p] \notin Heads \cup {DIAMOND}

(* C4: after Confirm in Box or Arrow mode every entry Preview held is in
   Diagram with the same glyph, Preview is empty, Mode is Insert, and every
   Diagram entry at a coordinate not in that Preview is unchanged. *)
C4_CommitSemantics ==
    [][(Pressed("Enter") /\ input_state \in {"BOX", "ARROW"}) =>
          /\ \A p \in DOMAIN preview : p \in DOMAIN diagram' /\ diagram'[p] = preview[p]
          /\ DOMAIN preview' = {}
          /\ input_state' = "INSERT"
          /\ \A p \in ((DOMAIN diagram) \cup (DOMAIN diagram')) \ (DOMAIN preview) :
                 p \in DOMAIN diagram /\ p \in DOMAIN diagram' /\ diagram'[p] = diagram[p]
      ]_vars

(* C4 witness: a box was confirmed into a diagram that already held a typed
   character *)
C4_Witness ==
    /\ last.key = "Enter" /\ last.mode = "BOX"
    /\ input_state = "INSERT"
    /\ \E p, q \in DOMAIN diagram : diagram[p] = "x" /\ diagram[q] = BOTTOMRIGHT

(* C5 (as claimed): from the initial state, entering Arrow mode at (0,0) and
   moving Right four times yields Preview exactly hline at (0,0)..(3,0) and
   the right head at (4,0).  Five events with Anchor (0,0), Cursor (4,0) and
   an empty Diagram are exactly Ctrl-a, Right, Right, Right, Right. *)
C5_ArrowStraightRun ==
    (/\ nevents = 5 /\ input_state = "ARROW" /\ Running
     /\ start_pos = <<0, 0>> /\ current_pos = <<4, 0>>
     /\ DOMAIN diagram = {})
    => preview = [p \in {<<x, 0>> : x \in 0..4} |->
                     IF p = <<4, 0>> THEN HEAD_RIGHT ELSE HLINE]

(* C6 (as claimed): a movement key in Arrow mode that moves Cursor from p
   to an adjacent cell c, where Preview[p] held a directional head, leaves
   the head of the new direction at c and the transition-table replacement
   at p. *)
C6_Table(head, key) ==
    CASE head = HEAD_RIGHT ->
            (CASE key \in {"Right", "Left"} -> HLINE
               [] key = "Down" -> TOPRIGHT [] key = "Up" -> BOTTOMRIGHT)
      [] head = HEAD_LEFT ->
            (CASE key \in {"Right", "Left"} -> HLINE
               [] key = "Down" -> TOPLEFT [] key = "Up" -> BOTTOMLEFT)
      [] head = HEAD_DOWN ->
            (CASE key = "Right" -> BOTTOMLEFT [] key = "Left" -> BOTTOMRIGHT
               [] key \in {"Down", "Up"} -> VLINE)
      [] head = HEAD_UP ->
            (CASE key = "Right" -> TOPLEFT [] key = "Left" -> TOPRIGHT
               [] key \in {"Down", "Up"} -> VLINE)

C6_HeadOf(key) ==
    CASE key = "Right" -> HEAD_RIGHT [] key = "Left" -> HEAD_LEFT
      [] key = "Down" -> HEAD_DOWN [] key = "Up" -> HEAD_UP

C6_ArrowTransition ==
    [][\A k \in MoveKeys :
          (/\ Pressed(k) /\ input_state = "ARROW"
           /\ current_pos' # current_pos
           /\ current_pos \in DOMAIN preview /\ preview[current_pos] \in Heads)
          => /\ current_pos' \in DOMAIN preview'
             /\ preview'[current_pos'] = C6_HeadOf(k)
             /\ current_pos \in DOMAIN preview'
             /\ preview'[current_pos] = C6_Table(preview[current_pos], k)
      ]_vars

(* The outline the Box generator is specified to draw, cell by cell *)
C7_Outline(a, c) ==
    LET left == Min(a[1], c[1])
        right == Max(a[1], c[1])
        top == Min(a[2], c[2])
        bottom == Max(a[2], c[2])
    IN [p \in {<<x, y>> : x \in {left, right}, y \in top..bottom}
              \cup {<<x, y>> : x \in left..right, y \in {top, bottom}} |->
           IF p = <<right, bottom>> THEN BOTTOMRIGHT
           ELSE IF p = <<left, bottom>> THEN BOTTOMLEFT
           ELSE IF p = <<right, top>> THEN TOPRIGHT
           ELSE IF p = <<left, top>> THEN TOPLEFT
           ELSE IF p[2] \in {top, bottom} THEN HLINE
           ELSE VLINE]

(* C7: in every reachable state with Mode = Box, Preview is exactly the
   rectangle outline of (Anchor, Cursor), corners written last in the order
   top-left, top-right, bottom-left, bottom-right, and nothing else. *)
C7_BoxPreviewIsOutline ==
    input_state = "BOX" => preview = C7_Outline(start_pos, current_pos)

(* C7 witness: a box with horizontal and vertical edges, met again by an
   event that changes neither Anchor nor Cursor *)
C7_Witness ==
    /\ input_state = "BOX" /\ last.key = "Other" /\ last.mode = "BOX"
    /\ \E p, q \in DOMAIN preview : preview[p] = HLINE /\ preview[q] = VLINE

(* Insert a character, then Backspace, from the current state *)
C8_AfterInsertBackspace(ch) ==
    process_input(process_input(GS, Event("Char", ch, "none"), overflow_checks).gs,
                  Event("Backspace", "x", "none"), overflow_checks).gs

C8_Cell(d, p) == IF p \in DOMAIN d THEN d[p] ELSE "None"

(* C8 (as claimed): for any Diagram content, in Insert mode, inserting a
   character at the Cursor cell and pressing Backspace restores the Diagram
   at that cell to its state before the insert. *)
C8_RoundTripAnyContent ==
    (input_state = "INSERT" /\ Running /\ window_size = TerminalSize) =>
        \A ch \in TypedChars :
            C8_Cell(C8_AfterInsertBackspace(ch).diagram, current_pos)
                = C8_Cell(diagram, current_pos)

(* C8 (amended): when the insert advances the Cursor (column < width), the
   Backspace that follows leaves the cell empty and every other cell and the
   Cursor as before the insert; so it restores the pre-insert Diagram when
   the cell was empty before. *)
C8_RoundTripEmptyCell ==
    (/\ input_state = "INSERT" /\ Running /\ window_size = TerminalSize
     /\ current_pos[1] < window_size[1]) =>
        \A ch \in TypedChars :
            \A after \in {C8_AfterInsertBackspace(ch)} :
               /\ DOMAIN after.diagram = (DOMAIN diagram) \ {current_pos}
               /\ \A p \in DOMAIN after.diagram : after.diagram[p] = diagram[p]
               /\ after.current_pos = current_pos
               /\ (current_pos \notin DOMAIN diagram => after.diagram = diagram)

(* C8 witness: a Backspace has just run in Insert mode, the Diagram still
   holds content, and the Cursor is on an empty cell inside the viewport *)
C8_Witness ==
    /\ input_state = "INSERT" /\ Running /\ window_size = TerminalSize
    /\ last.key = "Backspace" /\ last.mode = "INSERT"
    /\ current_pos[1] < window_size[1]
    /\ current_pos \notin DOMAIN diagram
    /\ DOMAIN diagram # {}

(* C9 (as claimed): after a Save whose file creation or write fails, the
   editor session continues. *)
C9_SaveFailureNonFatal ==
    (last.key = "Ctrl-s" /\ last.io \in {"create_err", "write_err", "flush_err"})
        => Running

(* C10: at render time every viewport cell shows the Preview glyph if
   Preview has an entry there, otherwise the Diagram glyph if Diagram has
   one, otherwise a space. *)
C10_PreviewPrecedence ==
    \A frame \in {draw} : \A i \in 0..(TermHeight - 1), j \in 0..(TermWidth - 1) :
        frame[i * (TermWidth + 1) + j + 1] =
            IF <<j, i>> \in DOMAIN preview THEN preview[<<j, i>>]
            ELSE IF <<j, i>> \in DOMAIN diagram THEN diagram[<<j, i>>]
            ELSE BLANK

(* C10 witness: a viewport cell occupied in both layers, with different
   glyphs *)
C10_Witness ==
    \E p \in (DOMAIN preview) \cap (DOMAIN diagram) :
        /\ p[1] < TermWidth /\ p[2] < TermHeight
        /\ preview[p] # diagram[p]

(* The viewports the compositor is tried on in every reachable state: empty,
   smaller than the terminal (so that entries lie outside), and the terminal *)
C11_Viewports == {<<w, h>> : w \in {0, 1, TermWidth}, h \in {0, 1, TermHeight}}

(* C11: for any viewport (w,h) and any Diagram and Preview contents, the
   compositor returns exactly h rows of exactly w characters each, every row
   closed by one line break. *)
C11_CompositorShape ==
    \A v \in C11_Viewports :
        \A out \in {generate_output([GS EXCEPT !.window_size = v])} :
            /\ Len(out) = v[2] * (v[1] + 1)
            /\ \A k \in 1..Len(out) : (out[k] = NEWLINE) <=> (k % (v[1] + 1) = 0)

(* C11 witness: both layers hold content, and the Diagram has an entry
   outside the terminal's viewport *)
C11_Witness ==
    /\ DOMAIN preview # {}
    /\ \E p \in DOMAIN diagram : p[1] >= TermWidth \/ p[2] >= TermHeight
    /\ Len(draw) = TermHeight * (TermWidth + 1)

(* C12: when Anchor = Cursor in Box mode, Preview has exactly one occupied
   coordinate, the Anchor cell, holding the bottom-right round corner. *)
C12_BoxDegenerate ==
    (input_state = "BOX" /\ start_pos = current_pos) =>
        /\ DOMAIN preview = {start_pos}
        /\ preview[start_pos] = BOTTOMRIGHT

(* C12 witness: Box mode has just been entered away from the origin *)
C12_Witness ==
    /\ input_state = "BOX" /\ last.key = "Ctrl-b"
    /\ start_pos = current_pos /\ current_pos # <<0, 0>>
    /\ preview = [p \in {current_pos} |-> BOTTOMRIGHT]

(* C13: the Box outline is symmetric in its two defining points: the Preview
   of (Anchor, Cursor) equals the Preview generated with the two exchanged. *)
C13_BoxSymmetric ==
    input_state = "BOX" =>
        preview = BoxGenerator([GS EXCEPT !.start_pos = current_pos,
                                          !.current_pos = start_pos]).preview

(* C13 witness: a box whose Cursor is up and left of its Anchor *)
C13_Witness ==
    /\ input_state = "BOX"
    /\ current_pos[1] < start_pos[1] /\ current_pos[2] < start_pos[2]
    /\ \E p \in DOMAIN preview : preview[p] = TOPLEFT

(* C14: Quit is mode-independent and terminates the session: in every mode
   Esc sets should_quit and the loop is left at the end of that iteration,
   and no step is taken once should_quit is set. *)
C14_QuitTerminates ==
    [][/\ Pressed("Esc") => (should_quit' /\ status' = "quit")
       /\ ~should_quit
      ]_vars

(* C14 witness: the session was quit from Arrow mode *)
C14_Witness ==
    /\ last.key = "Esc" /\ last.mode = "ARROW"
    /\ should_quit /\ status = "quit"

(* the events that may change Diagram, by the mode they meet *)
C15_MayChange(k, mode) ==
    \/ k \in {"Char", "Backspace"} /\ mode = "INSERT"
    \/ k = "Enter" /\ mode \in {"BOX", "ARROW"}

(* C15 (as claimed): Diagram is changed only by character insertion or
   Backspace in Insert mode and by Confirm in Box or Arrow mode, and no event
   ever empties Diagram. *)
C15_DiagramFrameNeverEmptied ==
    [][/\ diagram' # diagram => (\E k \in Keys : Pressed(k) /\ C15_MayChange(k, input_state))
       /\ DOMAIN diagram # {} => DOMAIN diagram' # {}
      ]_vars

(* C15 (amended): Diagram is changed only by those events, and no event
   removes more than one entry: Diagram becomes empty only when Backspace in
   Insert mode removes its single remaining entry. *)
C15_DiagramFrame ==
    [][/\ diagram' # diagram => (\E k \in Keys : Pressed(k) /\ C15_MayChange(k, input_state))
       /\ Cardinality((DOMAIN diagram) \ (DOMAIN diagram')) <= 1
       /\ (DOMAIN diagram # {} /\ DOMAIN diagram' = {}) =>
              /\ Pressed("Backspace") /\ input_state = "INSERT"
              /\ Cardinality(DOMAIN diagram) = 1
      ]_vars

(* C15 witness: a movement key met Arrow mode with content in both layers *)
C15_Witness ==
    /\ last.key \in MoveKeys /\ last.mode = "ARROW"
    /\ DOMAIN diagram # {} /\ DOMAIN preview # {}

(* C16 (as claimed): after every movement key PreviousCursor is the value
   Cursor held immediately before that key; Char, Backspace and Enter do not
   change PreviousCursor. *)
C16_PrevAfterEveryMoveKey ==
    [][/\ \A k \in MoveKeys : Pressed(k) => prev_pos' = current_pos
       /\ \A k \in {"Char", "Backspace", "Enter"} : Pressed(k) => prev_pos' = prev_pos
      ]_vars

(* C16 (amended): after a movement key that moves the Cursor, PreviousCursor
   is the value Cursor held before the key; a movement key blocked at the
   edge, and Char, Backspace and Enter, leave PreviousCursor unchanged. *)
C16_PrevAfterMove ==
    [][/\ \A k \in MoveKeys : Pressed(k) =>
              IF current_pos' # current_pos THEN prev_pos' = current_pos
              ELSE prev_pos' = prev_pos
       /\ \A k \in {"Char", "Backspace", "Enter"} : Pressed(k) => prev_pos' = prev_pos
      ]_vars

(* C16 witness: Up was blocked in the top row after a horizontal move *)
C16_Witness ==
    /\ last.key = "Up" /\ current_pos[2] = 0
    /\ prev_pos[2] = 0 /\ prev_pos[1] # current_pos[1]

(* C17: Left with cursor.x = 0, Up with cursor.y = 0 (in any mode) and
   Backspace with cursor.x = 0 in Insert mode leave Cursor, Diagram, Preview,
   Mode and Anchor unchanged. *)
C17_OutOfRangeNoOp ==
    [][(\/ Pressed("Left") /\ current_pos[1] = 0
        \/ Pressed("Up") /\ current_pos[2] = 0
        \/ Pressed("Backspace") /\ current_pos[1] = 0 /\ input_state = "INSERT")
       => UNCHANGED <<current_pos, diagram, preview, input_state, start_pos>>
      ]_vars

(* C17 witness: Left was blocked in column 0 in Arrow mode (the Cursor did
   not come from column 1) *)
C17_Witness ==
    /\ last.key = "Left" /\ last.mode = "ARROW" /\ Running
    /\ current_pos[1] = 0 /\ prev_pos[1] # 1
    /\ DOMAIN preview # {}

(* C18: in every reachable state with Mode = Arrow that the event loop
   holds (the handler did not die halfway in a panic), no Preview cell other
   than the Cursor cell holds a directional head. *)
C18_HeadOnlyAtTip ==
    (input_state = "ARROW" /\ status # "panic") =>
        \A p \in DOMAIN preview : preview[p] \in Heads => p = current_pos

(* C18 witness: an arrow that reversed onto its Anchor: the head is on the
   Cursor, on a cell the path had already left, and the cell it came from
   has become a straight segment *)
C18_Witness ==
    /\ input_state = "ARROW" /\ Running
    /\ last.key \in MoveKeys /\ last.mode = "ARROW"
    /\ current_pos = start_pos /\ prev_pos # current_pos
    /\ current_pos \in DOMAIN preview /\ preview[current_pos] \in Heads
    /\ prev_pos \in DOMAIN preview /\ preview[prev_pos] = HLINE

(* C19: the junction glyph '+' is never written into Preview, and whenever
   the direction of (PreviousCursor, Cursor) is Indeterminate in Arrow mode
   the cell at PreviousCursor holds no directional head. *)
C19_NoPlus ==
    /\ \A p \in DOMAIN preview : preview[p] # PLUS
    /\ (input_state = "ARROW" /\ status # "panic"
        /\ Direction(prev_pos, current_pos, FALSE) = "Indeterminate") =>
           (prev_pos \in DOMAIN preview => preview[prev_pos] \notin Heads)

(* C19 witness: the generator ran with an Indeterminate direction (a diamond
   is in Preview) and the arrow has been extended since *)
C19_Witness ==
    /\ input_state = "ARROW" /\ Running
    /\ \E p, q \in DOMAIN preview : preview[p] = DIAMOND /\ preview[q] \in Heads

(* C20 (as claimed): whenever the Arrow generator runs, prev.x - 1 and
   prev.y - 1 are only evaluated with prev.x >= 1 and prev.y >= 1.  In a
   state with Mode = Arrow the generator has run on (prev_pos, current_pos). *)
C20_NoUnderflow ==
    input_state = "ARROW" => ~Underflows(prev_pos, current_pos)

====
